---- MODULE Spec2Model ----
(***************************************************************************)
(* Mission execution and battery handoff of the drone survey backend.      *)
(*                                                                         *)
(* The repository (MongoDB through mongoengine) is the shared state: the   *)
(* mission and drone documents, the handoff log and the telemetry series.  *)
(* Every background task (mission executor, replacement flight, return     *)
(* flight, charging worker) is a process whose steps are separated where   *)
(* the code sleeps, and a replacement flight also between the position it  *)
(* writes and the distance check that follows.                             *)
(*                                                                         *)
(* Units: battery levels are tenths of a percent (Pct(20) is 20.0 %),      *)
(* positions are metres along a line, so that the haversine distance of    *)
(* two positions is the absolute value of their difference.                *)
(*                                                                         *)
(* Attributes that the services read and write on a document               *)
(* (mission_phase, origin_base_id, pending_replacement_drone_id,           *)
(* handoff_location, last_location) are persisted fields of the document,  *)
(* and mission.drone is the drone named by assigned_drone_id.              *)
(***************************************************************************)
EXTENDS Integers, Sequences, FiniteSets, Bags, TLC

NULL == "null"

Drones == {"d1", "d2", "d3"}
Missions == {"m1", "m2"}
Bases == {"b1", "b2"}

\* ------------------------------------------------------------------ bounds
\* Seconds of flight that one executor tick stands for (the code passes 1.0).
TickInterval == 150
\* PauseMission calls accepted over a run.
MaxPauses == 1
MaxFailures == 4     \* consecutive failures of a repository call

\* --------------------------------------------------------------- constants
Pct(p) == 10 * p

CRITICAL_BATTERY_LEVEL == Pct(20)
MINIMUM_BATTERY_FOR_MISSION == Pct(30)
BATTERY_DRAIN_RATE == Pct(2)
CHARGE_RATE == Pct(5)
MAX_CHARGE_TIME == 30
SYNC_CHARGE_RATE == Pct(10)
SYNC_MAX_ITERATIONS == 15
MAX_RETRIES == 3
RENDEZVOUS_RADIUS == 10
RETURN_SPEED == 10
MIN_RETURN_TIME == 5
MAX_RETURN_TIME == 30
TAKEOFF_ALT == 10
MissionAltitude == 50
MissionSpeed == 10

\* Positions of the bases and the centre of each mission's coverage polygon.
BasePos == [b1 |-> 0, b2 |-> 40]
MissionCenter == [m1 |-> 15, m2 |-> 15]

\* ----------------------------------------------------------------- helpers
Abs(x) == IF x < 0 THEN -x ELSE x
Min(a, b) == IF a < b THEN a ELSE b
Max(a, b) == IF a < b THEN b ELSE a

haversine_distance(a, b) == Abs(a - b)

\* Collections and task tables are bags: what they hold and how many times.
Add(bag, x) == bag (+) SetToBag({x})
Remove(bag, x) == bag (-) SetToBag({x})

Waypoint(pos, alt, action) == [pos |-> pos, alt |-> alt, action |-> action]

\* The spacing of the scan lines of a crosshatch path (80 % of the altitude
\* as swath, reduced by the overlap, at least 10 m) and their largest number.
Overlap == 70
MAX_LINES == 50
LineSpacing(altitude) == Max((((altitude * 8) \div 10) * (100 - Overlap)) \div 100, 10)

\* The body that path_generator.generate_path planned for the coverage
\* polygon when the mission was created: one crosshatch line, entered with
\* action fly and left with action photo.
PlannedBody ==
    << Waypoint(10, MissionAltitude, "fly"), Waypoint(20, MissionAltitude, "photo") >>

\* path_generator.generate_travel_path: takeoff, climb, intermediate points
\* for hops over 500 m, arrival.
TravelIntermediates(start, end, alt, action) ==
    LET distance == haversine_distance(start, end)
        num_points == Min(distance \div 200, 10)
    IN  IF distance > 500
        THEN [i \in 1..(num_points - 1) |->
                Waypoint(start + (i * (end - start)) \div (num_points + 1), alt, action)]
        ELSE << >>

generate_travel_path(start, end, alt, action) ==
    (IF action = "fly" THEN << Waypoint(start, TAKEOFF_ALT, action) >> ELSE << >>)
    \o << Waypoint(start, alt, action) >>
    \o TravelIntermediates(start, end, alt, action)
    \o << Waypoint(end, alt, action) >>

\* path_generator.generate_crosshatch_path for the outer ring of a coverage
\* polygon, a sequence of vertices << lng, lat >> in metres.  Scan lines run
\* from the lowest latitude upwards; on each line the crossings with the
\* edges of the ring are sorted and paired, and each pair gives a waypoint
\* with action fly and one with action photo.  The waypoints keep their
\* longitude, the coordinate of the line the model flies on; crossings are
\* rounded down to the metre.  ok is FALSE when the function raises (min()
\* of an empty ring).
Div(a, b) == IF b > 0 THEN a \div b ELSE (0 - a) \div (0 - b)

RECURSIVE Intersections(_, _, _)
Intersections(coords, lat, i) ==
    IF i >= Len(coords) THEN << >>
    ELSE LET x1 == coords[i][1]
             y1 == coords[i][2]
             x2 == coords[i + 1][1]
             y2 == coords[i + 1][2]
             crosses == (y1 <= lat /\ lat <= y2) \/ (y2 <= lat /\ lat <= y1)
         IN  (IF crosses /\ y1 # y2
              THEN << x1 + Div((lat - y1) * (x2 - x1), y2 - y1) >>
              ELSE << >>)
             \o Intersections(coords, lat, i + 1)

RECURSIVE LineWaypoints(_, _, _, _)
LineWaypoints(xs, j, direction, altitude) ==
    IF j > Len(xs) - 1 THEN << >>
    ELSE (IF direction = 1
          THEN << Waypoint(xs[j], altitude, "fly"), Waypoint(xs[j + 1], altitude, "photo") >>
          ELSE << Waypoint(xs[j + 1], altitude, "fly"), Waypoint(xs[j], altitude, "photo") >>)
         \o LineWaypoints(xs, j + 2, direction, altitude)

RECURSIVE ScanLines(_, _, _, _, _, _)
ScanLines(coords, current_lat, max_lat, direction, line_count, altitude) ==
    IF current_lat > max_lat \/ line_count >= MAX_LINES THEN << >>
    ELSE LineWaypoints(SortSeq(Intersections(coords, current_lat, 1), <),
                       1, direction, altitude)
         \o ScanLines(coords, current_lat + LineSpacing(altitude), max_lat,
                      0 - direction, line_count + 1, altitude)

generate_crosshatch_path(coords, altitude) ==
    IF Len(coords) = 0 THEN [ok |-> FALSE, waypoints |-> << >>]
    ELSE LET lats == {coords[i][2] : i \in 1..Len(coords)}
             min_lat == CHOOSE y \in lats : \A z \in lats : y <= z
             max_lat == CHOOSE y \in lats : \A z \in lats : z <= y
         IN  [ok |-> TRUE,
              waypoints |-> ScanLines(coords, min_lat, max_lat, 1, 0, altitude)]

\* The coverage polygon of the missions whose path was planned earlier.
PlannedArea == << <<10, 0>>, <<20, 0>>, <<20, 1>>, <<10, 1>>, <<10, 0>> >>

\* --------------------------------------------------------------- variables
VARIABLES
    mission,    \* mission documents
    drone,      \* drone documents
    log,        \* DroneHandoffLog collection
    telemetry,  \* TelemetryPoint collection
    starts,     \* start_mission calls between drone check and commit
    execs,      \* live mission executor tasks
    rflights,   \* live replacement flight tasks
    returns,    \* live return flight tasks
    chargers,   \* live charging workers
    pauses,     \* PauseMission calls so far
    celery,     \* whether task.delay() queues the task (broker reachable) or raises
    reply       \* outcome of the last start_mission call on each mission

vars == << mission, drone, log, telemetry, starts, execs, rflights, returns,
           chargers, pauses, celery, reply >>

\* The repository and the task tables as one value, so that a handler that
\* calls other handlers is the composition of their effects.
World == [mission |-> mission, drone |-> drone, log |-> log,
          telemetry |-> telemetry, execs |-> execs, rflights |-> rflights,
          returns |-> returns, chargers |-> chargers]

SetWorld(W) ==
    /\ mission' = W.mission
    /\ drone' = W.drone
    /\ log' = W.log
    /\ telemetry' = W.telemetry
    /\ execs' = W.execs
    /\ rflights' = W.rflights
    /\ returns' = W.returns
    /\ chargers' = W.chargers

\* ------------------------------------------------------------------- fleet
Available(dr) == {d \in Drones : dr[d].status = "available"}

\* The head of a queryset ordered by battery level, highest first: any of the
\* drones of S with the highest level (the order of equal levels is the
\* store's).
TopBattery(dr, S) == {d \in S : \A e \in S : dr[e].battery <= dr[d].battery}

\* base_service.find_nearest_base: the active base closest to the point.
NearestBases(center) ==
    {b \in Bases : \A c \in Bases :
        haversine_distance(BasePos[b], center) <= haversine_distance(BasePos[c], center)}

\* A selection that does not look at the status of the drones.
assign_any_drone(dr, m) == TopBattery(dr, Drones)

\* mission_service.auto_assign_drone: the drones it may return; the empty set
\* stands for the ValidationError.
auto_assign_drone(dr, m) ==
    LET atBase == {d \in Available(dr) : dr[d].base \in NearestBases(MissionCenter[m])}
    IN  IF atBase # {} THEN TopBattery(dr, atBase)
        ELSE TopBattery(dr, Available(dr))

\* models.handoff_log.log_handoff
LogEntry(m, kind, outgoing, incoming) ==
    [m |-> m, kind |-> kind, outgoing |-> outgoing, incoming |-> incoming]

log_handoff(W, m, kind, outgoing, incoming) ==
    [W EXCEPT !.log = Add(@, LogEntry(m, kind, outgoing, incoming))]

\* --------------------------------------------------------------- simulator
\* simulator/engine.py.  A simulator is the record of the fields of
\* DroneSimulator that change; the waypoint list is the mission's path.
Progress100 == 10000    \* progress is kept in hundredths of a percent

\* _count_travel_waypoints: the leading waypoints with action fly.
RECURSIVE CountTravelFrom(_, _)
CountTravelFrom(path, i) ==
    IF i > Len(path) THEN 0
    ELSE IF path[i].action = "fly" THEN 1 + CountTravelFrom(path, i + 1)
    ELSE 0

travel_waypoint_count(path) == CountTravelFrom(path, 1)

\* _find_return_waypoint_start: index (from 0) of the first waypoint whose
\* action is return or land, the length of the list when there is none.
return_waypoint_start(path) ==
    LET R == {i \in 1..Len(path) : path[i].action \in {"return", "land"}}
    IN  IF R = {} THEN Len(path)
        ELSE (CHOOSE i \in R : \A j \in R : i <= j) - 1

RECURSIVE HopSum(_, _, _)
\* Sum of the hops path[i] -> path[i+1] for the 0-based i in from..(to-1).
HopSum(path, from, to) ==
    IF from >= to THEN 0
    ELSE haversine_distance(path[from + 1].pos, path[from + 2].pos)
         + HopSum(path, from + 1, to)

total_distance(path) ==
    IF Len(path) < 2 THEN 0 ELSE HopSum(path, 0, Len(path) - 1)

travel_distance(path) ==
    IF Len(path) < 2 \/ travel_waypoint_count(path) < 1 THEN 0
    ELSE HopSum(path, 0, Min(travel_waypoint_count(path), Len(path) - 1))

return_distance(path) ==
    IF return_waypoint_start(path) >= Len(path) THEN 0
    ELSE HopSum(path, return_waypoint_start(path), Len(path) - 1)

survey_distance(path) ==
    total_distance(path) - travel_distance(path) - return_distance(path)

is_traveling(path, idx) == idx < travel_waypoint_count(path)

is_surveying(path, idx) ==
    idx >= travel_waypoint_count(path) /\ idx < return_waypoint_start(path)

is_returning(path, idx) ==
    idx >= return_waypoint_start(path) /\ idx < Len(path)

\* A constructor that restores nothing from the mission: index 0, no survey
\* distance covered, position at the first waypoint.
SimulatorFromScratch(msn, dr) ==
    [ idx |-> 0,
      pos |-> IF Len(msn.path) > 0 THEN msn.path[1].pos ELSE 0,
      alt |-> IF Len(msn.path) > 0 THEN msn.path[1].alt ELSE MissionAltitude,
      battery |-> IF msn.assigned # NULL THEN dr[msn.assigned].battery ELSE Pct(100),
      svy |-> 0 ]

\* DroneSimulator.__init__: battery of the assigned drone, index and survey
\* distance restored from the persisted mission, position at the waypoint of
\* that index.
NewSimulator(msn, dr) ==
    LET path == msn.path
        idx == msn.wp
        at == IF Len(path) > 0 THEN path[Min(idx, Len(path) - 1) + 1]
              ELSE Waypoint(0, MissionAltitude, "fly")
    IN  [ idx |-> idx,
          pos |-> at.pos,
          alt |-> at.alt,
          battery |-> IF msn.assigned # NULL THEN dr[msn.assigned].battery ELSE Pct(100),
          svy |-> IF msn.progress > 0
                  THEN (msn.progress * survey_distance(path)) \div Progress100
                  ELSE 0 ]

\* _create_result: the fields of the result that the executor uses.
create_result(sim, path, complete) ==
    [ complete |-> complete,
      position |-> sim.pos,
      battery |-> sim.battery,
      current_waypoint |-> sim.idx,
      progress |-> IF survey_distance(path) > 0
                   THEN Min(Progress100, (sim.svy * Progress100) \div survey_distance(path))
                   ELSE IF complete THEN Progress100 ELSE 0,
      mission_phase |-> IF is_traveling(path, sim.idx) THEN "traveling"
                        ELSE IF is_surveying(path, sim.idx) THEN "surveying"
                        ELSE IF is_returning(path, sim.idx) THEN "returning"
                        ELSE IF complete THEN "completed" ELSE "unknown" ]

\* A drain that does not stop at an empty battery.
DrainBelowZero(battery, dt) == battery - (BATTERY_DRAIN_RATE * dt) \div 60

Drain(battery, dt) == Max(0, battery - (BATTERY_DRAIN_RATE * dt) \div 60)

\* DroneSimulator.tick: the simulator after the tick and the result.
tick(sim, path, dt) ==
    IF sim.idx >= Len(path)
    THEN [sim |-> sim, result |-> create_result(sim, path, TRUE)]
    ELSE
      LET target == path[sim.idx + 1]
          distance_to_target == haversine_distance(sim.pos, target.pos)
          max_distance == MissionSpeed * dt
          surveying == is_surveying(path, sim.idx)
      IN  IF distance_to_target <= max_distance
          THEN LET reached == [sim EXCEPT
                        !.pos = target.pos,
                        !.alt = target.alt,
                        !.svy = IF surveying THEN @ + distance_to_target ELSE @,
                        !.idx = @ + 1]
               IN  IF reached.idx >= Len(path)
                   THEN [sim |-> reached, result |-> create_result(reached, path, TRUE)]
                   ELSE LET drained == [reached EXCEPT !.battery = Drain(@, dt)]
                        IN  [sim |-> drained,
                             result |-> create_result(drained, path, FALSE)]
          ELSE LET moved == [sim EXCEPT
                        !.pos = IF target.pos > @ THEN @ + max_distance
                                ELSE @ - max_distance,
                        !.alt = @ + ((target.alt - @) * max_distance)
                                    \div distance_to_target,
                        !.svy = IF surveying THEN @ + max_distance ELSE @,
                        !.battery = Drain(@, dt)]
               IN  [sim |-> moved, result |-> create_result(moved, path, FALSE)]

\* ----------------------------------------------------------------- handoff
\* tasks/simulator.py.  A call of task.delay(...) either queues the task or
\* raises (broker unreachable); the callers pass the outcome as ok.  The
\* broker is reachable for a whole run or for none of it (variable celery).

\* simulate_return_flight(drone_id, base_id, current_position), tick
\* iterations of its loop done.
ReturnTask(d, base, from) == [d |-> d, base |-> base, from |-> from, tick |-> 0]

\* simulate_replacement_flight(replacement_drone_id, mission_id, target), at
\* waypoint i of its path, before the checks of the iteration (pc check) or
\* after the position was written (pc arrive).
ReplacementTask(d, m, target) ==
    [d |-> d, m |-> m, target |-> target, pc |-> "check", i |-> 1]

\* charge_drone_task(drone_id) (kind celery) and charge_drone_sync(drone_id)
\* (kind sync), tick iterations of the loop done.
ChargeTask(d, kind) == [d |-> d, kind |-> kind, tick |-> 0]

\* abort_mission_no_replacement(mission, current_drone): mem is the caller's
\* mission object.
abort_mission_no_replacement(W, m, mem, cur, okReturn) ==
    LET base_id == IF mem.originBase # NULL THEN mem.originBase ELSE W.drone[cur].base
        W1 == [W EXCEPT !.mission[m].status = "aborted",
                        !.drone[cur].status = "returning",
                        !.drone[cur].cmid = NULL]
        W2 == IF okReturn
              THEN [W1 EXCEPT !.returns =
                        Add(@, ReturnTask(cur, base_id, W.drone[cur].location))]
              ELSE [W1 EXCEPT !.drone[cur].status = "charging"]
    IN  log_handoff(W2, m, "mission_aborted", cur, NULL)

\* A test that accepts every battery level.
any_battery(dr, d) == TRUE

\* The battery test of perform_battery_handoff (lines 174 and 204): the drone
\* has at least the minimum level of a replacement.
sufficient_battery(dr, d) == dr[d].battery >= MINIMUM_BATTERY_FOR_MISSION

\* The values that replacement_drone can have at line 199 of
\* perform_battery_handoff; NULL is None, and "raise" is the exception of
\* auto_assign_drone, after which the function returns None.
ReplacementChoices(W, m, mem, cur) ==
    LET dr == W.drone
        origin == IF mem.originBase # NULL THEN mem.originBase ELSE dr[cur].base
        same_base == IF origin = NULL THEN {}
                     ELSE {d \in Available(dr) : dr[d].base = origin /\ d # cur}
        found == {d \in TopBattery(dr, same_base) : sufficient_battery(dr, d)}
        others == Available(dr) \ {cur}
        assigned == auto_assign_drone(dr, m)
    IN  IF found # {} THEN found
        ELSE IF assigned = {} THEN {"raise"}
        ELSE UNION {IF a = cur
                    THEN (IF others = {} THEN {NULL} ELSE TopBattery(dr, others))
                    ELSE {a} : a \in assigned}

\* perform_battery_handoff(mission, current_drone, current_waypoint_index):
\* the world after the call and the value returned (NULL for None).
perform_battery_handoff(W, m, mem, cur, r, okFlight, okReturn) ==
    IF r \in {"raise", NULL}
    THEN [W |-> W, ret |-> NULL]
    ELSE IF ~sufficient_battery(W.drone, r)
    THEN [W |-> abort_mission_no_replacement(W, m, mem, cur, okReturn),
          ret |-> "aborted"]
    ELSE
      LET handoff == W.drone[cur].location
          W1 == [W EXCEPT !.drone[r].status = "dispatching",
                          !.mission[m].pending = r,
                          !.mission[m].handoffLoc = handoff]
          W2 == log_handoff(W1, m, "replacement_dispatched", cur, r)
      IN  IF okFlight
          THEN [W |-> [W2 EXCEPT !.rflights = Add(@, ReplacementTask(r, m, handoff))],
                ret |-> r]
          ELSE [W |-> [W2 EXCEPT !.drone[r].status = "available",
                                 !.mission[m].pending = NULL,
                                 !.mission[m].handoffLoc = NULL],
                ret |-> NULL]

\* complete_handoff(mission_id, replacement_drone_id).  The three documents
\* are loaded first; save() writes the fields whose assigned value differs
\* from the value loaded (mongoengine's change tracking), which matters when
\* outgoing_drone and replacement_drone are the same document.
complete_handoff(W, m, r, okReturn) ==
    LET out == W.mission[m].assigned
    IN  IF out = NULL THEN W
        ELSE
          LET loaded == W.drone[r]
              base_id == IF W.mission[m].originBase # NULL
                         THEN W.mission[m].originBase ELSE W.drone[out].base
              W1 == log_handoff(W, m, "handoff_complete", out, r)
              W2 == [W1 EXCEPT !.drone[out].status = "returning",
                               !.drone[out].cmid = NULL]
              W3 == IF okReturn
                    THEN [W2 EXCEPT !.returns =
                            Add(@, ReturnTask(out, base_id, W.drone[out].location))]
                    ELSE W2
              W4 == [W3 EXCEPT
                       !.drone[r].status =
                            IF loaded.status # "in_flight" THEN "in_flight" ELSE @,
                       !.drone[r].cmid = IF loaded.cmid # m THEN m ELSE @]
          IN  [W4 EXCEPT !.mission[m].assigned = r,
                         !.mission[m].pending = NULL,
                         !.mission[m].handoffLoc = NULL]

\* mission_service.complete_mission(mission_id); a failed delay of the charge
\* task falls back to the charging thread.
complete_mission(W, m, okCharge) ==
    LET W1 == [W EXCEPT !.mission[m].status = "completed",
                        !.mission[m].progress = Progress100]
        d == W.mission[m].assigned
    IN  IF d = NULL THEN W1
        ELSE [W1 EXCEPT !.drone[d].status = "charging",
                        !.drone[d].cmid = NULL,
                        !.chargers = Add(@, ChargeTask(d,
                                        IF okCharge THEN "celery" ELSE "sync"))]

\* fleet_service.update_drone_location(drone_id, location, battery_level)
update_drone_location(W, d, location, battery) ==
    [W EXCEPT !.drone[d].last_location = location,
              !.drone[d].battery = battery]

\* ---------------------------------------------------------------- executor
\* tasks/simulator.py: run_mission_simulation (the Celery task) and
\* run_mission_simulation_sync (the thread started when delay() raises).  A
\* task is at pc init before its first pass, at pc loop in the sleep between
\* two passes, and at pc complete between the tick that reported the mission
\* complete and its call of complete_mission; sim is its DroneSimulator.
NoSim == [idx |-> 0, pos |-> 0, alt |-> 0, battery |-> 0, svy |-> 0]

ExecTask(m, kind) == [m |-> m, kind |-> kind, pc |-> "init", sim |-> NoSim]

TelemetryPoint(m, d, result) ==
    [m |-> m, drone |-> d, waypoint_index |-> result.current_waypoint,
     progress |-> result.progress, battery |-> result.battery]

\* telemetry_service.record_telemetry
record_telemetry(W, m, d, result) ==
    [W EXCEPT !.telemetry = Add(@, TelemetryPoint(m, d, result))]

\* The except clause of run_mission_simulation_sync (lines 697-719).
FailureHandlerSync(W, m) ==
    LET d == W.mission[m].assigned
        W1 == [W EXCEPT !.mission[m].status = "failed"]
    IN  IF d = NULL THEN W1
        ELSE [W1 EXCEPT !.drone[d].status = "available", !.drone[d].cmid = NULL]

\* The except clause of run_mission_simulation (lines 511-527).
FailureHandlerCelery(W, m) ==
    LET d == W.mission[m].assigned
        W1 == [W EXCEPT !.mission[m].status = "failed"]
    IN  IF d = NULL THEN W1
        ELSE [W1 EXCEPT !.drone[d].status = "available"]

\* The simulator of a task at the start of a pass: built from the mission
\* and its drone by the first pass (lines 320-325 and 585-586).
SimulatorOf(W, e) ==
    IF e.pc = "init" THEN NewSimulator(W.mission[e.m], W.drone) ELSE e.sim

\* The simulator that the executor builds after perform_battery_handoff
\* returned a drone r: rebuilt from the reloaded mission, battery of r as it
\* was when r was selected.
RebindSimulator(W, m, battery) ==
    [NewSimulator(W.mission[m], W.drone) EXCEPT !.battery = battery]

\* The loop body of run_mission_simulation_sync after the reload, up to the
\* battery check (lines 603-665); mem is the mission as reloaded.
SyncBeforeCheck(W, e) ==
    LET m == e.m
        mem == W.mission[m]
        t == tick(SimulatorOf(W, e), mem.path, TickInterval)
        result == t.result
        W1 == record_telemetry(W, m, mem.assigned, result)
        W2 == [W1 EXCEPT !.mission[m].progress = result.progress,
                         !.mission[m].wp = result.current_waypoint]
        W3 == IF mem.phase = "traveling" /\ is_surveying(mem.path, t.sim.idx)
              THEN [W2 EXCEPT !.mission[m].phase = "surveying"]
              ELSE W2
    IN  [W |-> update_drone_location(W3, mem.assigned, result.position, result.battery),
         mem |-> mem, sim |-> t.sim, result |-> result]

\* The battery check and the completion check that end a pass of either loop
\* (lines 466-509 and 667-695), from the state b that the pass has reached:
\* the world, the simulator, whether the task has ended and whether it goes
\* on to complete_mission.  When
\* abort_mission_no_replacement returns "aborted", replacement.battery_level
\* raises: the thread catches it with the simulator already rebuilt, the
\* Celery task leaves through its except clause.
AfterCheck(b, m, kind, r, okFlight, okReturn) ==
    LET cur == b.mem.assigned
        critical == b.result.battery <= CRITICAL_BATTERY_LEVEL
        h == IF critical
             THEN perform_battery_handoff(b.W, m, b.mem, cur, r, okFlight, okReturn)
             ELSE [W |-> b.W, ret |-> NULL]
        sim == IF h.ret = NULL THEN b.sim
               ELSE IF h.ret = "aborted" THEN NewSimulator(h.W.mission[m], h.W.drone)
               ELSE RebindSimulator(h.W, m, b.W.drone[h.ret].battery)
    IN  IF h.ret = "aborted" /\ kind = "celery"
        THEN [W |-> FailureHandlerCelery(h.W, m), sim |-> sim, done |-> TRUE,
              complete |-> FALSE]
        ELSE [W |-> h.W, sim |-> sim, done |-> FALSE, complete |-> b.result.complete]

\* The values of replacement_drone that the battery check of the pass can
\* find (NULL alone when the check does not run).
CheckChoices(b, m) ==
    IF b.result.battery <= CRITICAL_BATTERY_LEVEL
    THEN ReplacementChoices(b.W, m, b.mem, b.mem.assigned)
    ELSE {NULL}

\* The loop body of run_mission_simulation after the reload, up to the
\* battery check (lines 343-464).  The rendezvous block reloads the mission,
\* which drops the progress, index and phase assigned above it before they
\* are saved, and rebuilds the simulator from the reloaded mission.
CeleryBeforeCheck(W, e, okReturn) ==
    LET m == e.m
        mem == W.mission[m]
        t == tick(SimulatorOf(W, e), mem.path, TickInterval)
        result == t.result
        W1 == record_telemetry(W, m, mem.assigned, result)
        toSurvey == mem.phase = "traveling" /\ is_surveying(mem.path, t.sim.idx)
        near == /\ mem.pending # NULL
                /\ haversine_distance(W1.drone[mem.assigned].location,
                                      W1.drone[mem.pending].location)
                       <= RENDEZVOUS_RADIUS
        W2 == IF near
              THEN complete_handoff(W1, m, mem.pending, okReturn)
              ELSE [W1 EXCEPT !.mission[m].progress = result.progress,
                              !.mission[m].wp = result.current_waypoint,
                              !.mission[m].phase = IF toSurvey THEN "surveying" ELSE @]
        mem2 == W2.mission[m]
    IN  [W |-> update_drone_location(W2, mem2.assigned, result.position, result.battery),
         mem |-> mem2,
         sim |-> IF near THEN RebindSimulator(W2, m, W1.drone[mem.pending].battery)
                 ELSE t.sim,
         result |-> result]

\* The end of a pass: the task leaves the table, goes on to complete_mission
\* or sleeps until its reload.
FinishPass(e, out) ==
    /\ SetWorld([out.W EXCEPT !.execs =
                    IF out.done THEN Remove(@, e)
                    ELSE Add(Remove(@, e),
                             [e EXCEPT !.sim = out.sim,
                                       !.pc = IF out.complete THEN "complete" ELSE "loop"])])
    /\ UNCHANGED << starts, pauses, celery, reply >>

\* Lines 309-318, 327-340, 572-583 and 588-601: the task loads the mission
\* and ends unless the mission is in progress.
ExecStop(e) ==
    /\ BagIn(e, execs)
    /\ e.pc # "complete"
    /\ mission[e.m].status # "in_progress"
    /\ execs' = Remove(execs, e)
    /\ UNCHANGED << mission, drone, log, telemetry, starts, rflights, returns,
                    chargers, pauses, celery, reply >>

\* One pass of the loop of run_mission_simulation_sync.
ExecTickSync(e) ==
    /\ BagIn(e, execs)
    /\ e.kind = "sync"
    /\ e.pc # "complete"
    /\ mission[e.m].status = "in_progress"
    /\ LET b == SyncBeforeCheck(World, e)
       IN  \E r \in CheckChoices(b, e.m) :
              FinishPass(e, AfterCheck(b, e.m, "sync", r, celery, celery))

\* One pass of the loop of run_mission_simulation.
ExecTickCelery(e) ==
    /\ BagIn(e, execs)
    /\ e.kind = "celery"
    /\ e.pc # "complete"
    /\ mission[e.m].status = "in_progress"
    /\ LET b == CeleryBeforeCheck(World, e, celery)
       IN  \E r \in CheckChoices(b, e.m) :
              FinishPass(e, AfterCheck(b, e.m, "celery", r, celery, celery))

\* retry_on_db_error(func) when the first `fails` calls of func raise a
\* transient repository error: the calls made, and whether one returned.
retry_on_db_error(fails, max_retries) ==
    [attempts |-> Min(fails + 1, max_retries), ok |-> fails < max_retries]

\* One pass of the loop of run_mission_simulation_sync in which the first
\* `fails` calls of record_telemetry raise a transient error (lines 620-628:
\* the call is retried, and the error of the last attempt is swallowed).
ExecTickSyncFaulty(e, fails) ==
    /\ BagIn(e, execs)
    /\ e.kind = "sync"
    /\ e.pc # "complete"
    /\ mission[e.m].status = "in_progress"
    /\ LET recorded == SyncBeforeCheck(World, e)
           b == IF retry_on_db_error(fails, MAX_RETRIES).ok THEN recorded
                ELSE [recorded EXCEPT !.W.telemetry = telemetry]
       IN  \E r \in CheckChoices(b, e.m) :
              FinishPass(e, AfterCheck(b, e.m, "sync", r, celery, celery))

\* One pass of the loop of run_mission_simulation in which the first `fails`
\* calls of record_telemetry raise: line 361 calls it once, outside any try
\* block of the loop, so that the first error ends the task through the
\* except clause of lines 511-527.
ExecTickCeleryFaulty(e, fails) ==
    /\ BagIn(e, execs)
    /\ e.kind = "celery"
    /\ e.pc # "complete"
    /\ mission[e.m].status = "in_progress"
    /\ fails >= 1
    /\ SetWorld(FailureHandlerCelery([World EXCEPT !.execs = Remove(@, e)], e.m))
    /\ UNCHANGED << starts, pauses, celery, reply >>

\* Lines 486-488 and 689-691: the task whose tick reported the mission
\* complete calls complete_mission and ends.
ExecComplete(e) ==
    /\ BagIn(e, execs)
    /\ e.pc = "complete"
    /\ SetWorld(complete_mission([World EXCEPT !.execs = Remove(@, e)], e.m, celery))
    /\ UNCHANGED << starts, pauses, celery, reply >>

\* A pass in which mission.reload() (lines 329 and 590) raises a repository
\* error: the except clause of the task runs and the task ends.
ExecError(e) ==
    /\ BagIn(e, execs)
    /\ e.pc # "complete"
    /\ LET rest == [World EXCEPT !.execs = Remove(@, e)]
       IN  SetWorld(IF e.kind = "celery" THEN FailureHandlerCelery(rest, e.m)
                    ELSE FailureHandlerSync(rest, e.m))
    /\ UNCHANGED << starts, pauses, celery, reply >>

\* ------------------------------------------------------------ mission API
\* A status check that refuses completed missions only.
StartUnlessCompleted(msn) == msn.status # "completed"

\* The status check of start_mission (lines 320-321).
StartAllowed(msn) == msn.status \in {"draft", "scheduled"}

\* start_mission on a mission that is neither draft nor scheduled: the call
\* raises MissionError before it has written anything.
StartRejected(m) ==
    /\ starts[m] = NULL
    /\ ~StartAllowed(mission[m])
    /\ reply' = [reply EXCEPT ![m] = "MissionError"]
    /\ UNCHANGED << mission, drone, log, telemetry, starts, execs, rflights,
                    returns, chargers, pauses, celery >>

\* Lines 347-357 of start_mission: a mission without waypoints gets the
\* crosshatch path of its coverage polygon (generate_flight_path saves it);
\* ok is FALSE when the mission has no coverage polygon or the generation
\* raises, which start_mission turns into a ValidationError.
generate_flight_path(msn) ==
    IF Len(msn.path) > 0 THEN [ok |-> TRUE, waypoints |-> msn.path]
    ELSE IF msn.area = NULL THEN [ok |-> FALSE, waypoints |-> << >>]
    ELSE generate_crosshatch_path(msn.area, MissionAltitude)

\* mission_service.start_mission up to the availability check of line 362:
\* the drone is chosen and recorded on the mission, and a missing flight
\* path is generated.
StartSelect(m) ==
    /\ starts[m] = NULL
    /\ StartAllowed(mission[m])
    /\ generate_flight_path(mission[m]).ok
    /\ LET a == mission[m].assigned
           keep == a # NULL /\ drone[a].status = "available"
       IN  \E d \in (IF keep THEN {a} ELSE auto_assign_drone(drone, m)) :
              /\ mission' = [mission EXCEPT
                                ![m].assigned = d,
                                ![m].path = generate_flight_path(mission[m]).waypoints]
              /\ starts' = [starts EXCEPT ![m] = d]
    /\ UNCHANGED << drone, log, telemetry, execs, rflights, returns, chargers, pauses, celery, reply >>

\* start_mission on a mission whose flight path cannot be generated: the
\* drone chosen has been saved on the mission (lines 328 and 344) when the
\* call raises ValidationError at line 353 or 355.
StartInvalid(m) ==
    /\ starts[m] = NULL
    /\ StartAllowed(mission[m])
    /\ ~generate_flight_path(mission[m]).ok
    /\ LET a == mission[m].assigned
           keep == a # NULL /\ drone[a].status = "available"
       IN  \E d \in (IF keep THEN {a} ELSE auto_assign_drone(drone, m)) :
              mission' = [mission EXCEPT ![m].assigned = d]
    /\ reply' = [reply EXCEPT ![m] = "ValidationError"]
    /\ UNCHANGED << drone, log, telemetry, starts, execs, rflights, returns,
                    chargers, pauses, celery >>

\* start_mission on a mission for which auto_assign_drone finds no drone: the
\* ValidationError of line 96 or 133 leaves start_mission before it has
\* written anything.
StartNoDrone(m) ==
    /\ starts[m] = NULL
    /\ StartAllowed(mission[m])
    /\ LET a == mission[m].assigned
       IN  /\ ~(a # NULL /\ drone[a].status = "available")
           /\ auto_assign_drone(drone, m) = {}
    /\ reply' = [reply EXCEPT ![m] = "NoDroneAvailable"]
    /\ UNCHANGED << mission, drone, log, telemetry, starts, execs, rflights, returns,
                    chargers, pauses, celery >>

\* The flight path that start_mission persists: travel waypoints from the
\* drone's base, the planned waypoints, return waypoints to the base.
StartPath(path, base) ==
    IF base = NULL \/ Len(path) = 0 THEN path
    ELSE generate_travel_path(BasePos[base], path[1].pos, MissionAltitude, "fly")
         \o path
         \o generate_travel_path(path[Len(path)].pos, BasePos[base], MissionAltitude, "fly")

\* start_mission from line 368: origin base, travel and return path, the
\* drone and the mission are written, the start is logged and the executor
\* is started (the thread when delay() raises).
StartCommit(m) ==
    /\ starts[m] # NULL
    /\ LET d == starts[m]
           W1 == [World EXCEPT
                    !.drone[d].status = "in_flight",
                    !.drone[d].cmid = m,
                    !.mission[m].originBase = drone[d].base,
                    !.mission[m].path = StartPath(@, drone[d].base),
                    !.mission[m].status = "in_progress",
                    !.mission[m].phase = "traveling",
                    !.mission[m].progress = 0,
                    !.mission[m].wp = 0]
           W2 == log_handoff(W1, m, "start", NULL, d)
       IN  SetWorld([W2 EXCEPT !.execs =
                        Add(@, ExecTask(m, IF celery THEN "celery" ELSE "sync"))])
    /\ starts' = [starts EXCEPT ![m] = NULL]
    /\ reply' = [reply EXCEPT ![m] = "ok"]
    /\ UNCHANGED << pauses, celery >>

\* ---------------------------------------------------------- longitudes
\* The longitudes of a flight path, in hundredths of a degree, for missions
\* and bases on the equator (where the great-circle distance between two
\* points is MetresPerDegree for each degree of longitude).
HALF_TURN == 18000
FULL_TURN == 36000
MetresPerDegree == 111195
BaseLng == [b1 |-> 17990, b2 |-> 7700]

\* utils/geo.normalize_longitude
RECURSIVE normalize_longitude(_)
normalize_longitude(lng) ==
    IF lng > HALF_TURN THEN normalize_longitude(lng - FULL_TURN)
    ELSE IF lng < -HALF_TURN THEN normalize_longitude(lng + FULL_TURN)
    ELSE lng

\* utils/geo.shortest_longitude_diff: the same two loops, on lng2 - lng1.
shortest_longitude_diff(lng1, lng2) == normalize_longitude(lng2 - lng1)

\* The distance in metres between two points of the equator.
equator_distance(lng1, lng2) ==
    LET hundredths == Abs(shortest_longitude_diff(lng1, lng2))
    IN  hundredths * (MetresPerDegree \div 100)
        + (hundredths * (MetresPerDegree % 100)) \div 100

\* path_generator.normalize_survey_area, for the longitudes of the outer ring.
normalize_survey_area(ring) == [i \in 1..Len(ring) |-> normalize_longitude(ring[i])]

\* generate_waypoint_path: the vertices of the ring but the closing one.
generate_waypoint_path(ring) == SubSeq(ring, 1, Len(ring) - 1)

\* generate_perimeter_path: every vertex of the ring.
generate_perimeter_path(ring) == ring

RECURSIVE SumTo(_, _)
SumTo(ring, i) == IF i = 0 THEN 0 ELSE ring[i] + SumTo(ring, i - 1)

RECURSIVE MaxRadiusTo(_, _, _)
MaxRadiusTo(ring, center, i) ==
    IF i = 0 THEN 0
    ELSE Max(equator_distance(center, ring[i]), MaxRadiusTo(ring, center, i - 1))

\* The cosine of i * 30 degrees, in thousandths, for i = 0..11.
Cos1000 == << 1000, 866, 500, 0, -500, -866, -1000, -866, -500, 0, 500, 866 >>

\* generate_spiral_path: 5 turns of 12 points around the mean of the
\* vertices, from the largest vertex distance inwards, then the centre.
SPIRAL_POINTS == 60
POINTS_PER_TURN == 12
SPIRAL_DIVISOR == 111000

generate_spiral_path(ring) ==
    LET center_lng == SumTo(ring, Len(ring)) \div Len(ring)
        max_radius == MaxRadiusTo(ring, center_lng, Len(ring))
    IN  [k \in 1..SPIRAL_POINTS |->
            LET radius == (max_radius * (SPIRAL_POINTS - (k - 1))) \div SPIRAL_POINTS
                angle == ((k - 1) % POINTS_PER_TURN) + 1
            IN  center_lng
                + (((radius * 100) \div SPIRAL_DIVISOR) * Cos1000[angle]) \div 1000]
        \o << center_lng >>

\* path_generator.generate_path: the longitudes of the planned waypoints of
\* a pattern (crosshatch waypoints lie on the edges of the normalized ring
\* and are left out here).
generate_path(ring, pattern) ==
    LET survey_area == normalize_survey_area(ring)
    IN  IF pattern = "perimeter" THEN generate_perimeter_path(survey_area)
        ELSE IF pattern = "spiral" THEN generate_spiral_path(survey_area)
        ELSE generate_waypoint_path(survey_area)

\* path_generator.generate_travel_path: the longitudes of the takeoff and
\* climb waypoints, of the intermediate waypoints and of the arrival waypoint.
travel_longitudes(start_lng, end_lng) ==
    LET distance == equator_distance(start_lng, end_lng)
        num_points == Min(distance \div 200, 10)
        lng_diff == shortest_longitude_diff(start_lng, end_lng)
    IN  << start_lng, start_lng >>
        \o (IF distance > 500
            THEN [i \in 1..(num_points - 1) |->
                    normalize_longitude(start_lng + (i * lng_diff) \div (num_points + 1))]
            ELSE << >>)
        \o << end_lng >>

\* Lines 371-466 of start_mission, for the longitudes: when the drone has a
\* base the stored waypoints are normalized and put between the travel
\* waypoints from the base and the return waypoints to it; when it has none
\* the stored waypoints are left as they are.
start_longitudes(lngs, base) ==
    IF base = NULL \/ Len(lngs) = 0 THEN lngs
    ELSE travel_longitudes(BaseLng[base], normalize_longitude(lngs[1]))
         \o [i \in 1..Len(lngs) |-> normalize_longitude(lngs[i])]
         \o travel_longitudes(normalize_longitude(lngs[Len(lngs)]), BaseLng[base])

\* start_mission for a mission whose waypoints hold longitudes: the flight
\* path is generated from the coverage polygon when the mission has no
\* waypoints, the travel and return waypoints are added, and the mission and
\* the drone are written.
StartLongitudes(m) ==
    /\ StartAllowed(mission[m])
    /\ mission[m].assigned # NULL
    /\ drone[mission[m].assigned].status = "available"
    /\ LET d == mission[m].assigned
           lngs == IF Len(mission[m].path) > 0
                   THEN [i \in 1..Len(mission[m].path) |-> mission[m].path[i].pos]
                   ELSE generate_path(mission[m].area, mission[m].pattern)
           all == start_longitudes(lngs, drone[d].base)
       IN  /\ mission' = [mission EXCEPT
                            ![m].path = [i \in 1..Len(all) |->
                                            Waypoint(all[i], MissionAltitude, "fly")],
                            ![m].originBase = drone[d].base,
                            ![m].status = "in_progress",
                            ![m].phase = "traveling"]
           /\ drone' = [drone EXCEPT ![d].status = "in_flight", ![d].cmid = m]
    /\ reply' = [reply EXCEPT ![m] = "ok"]
    /\ UNCHANGED << log, telemetry, starts, execs, rflights, returns, chargers,
                    pauses, celery >>

\* mission_service.pause_mission
PauseMission(m) ==
    /\ mission[m].status = "in_progress"
    /\ pauses < MaxPauses
    /\ pauses' = pauses + 1
    /\ mission' = [mission EXCEPT ![m].status = "paused"]
    /\ UNCHANGED << drone, log, telemetry, starts, execs, rflights, returns, chargers, celery, reply >>

\* mission_service.resume_mission: the executor is started again through
\* Celery only; a delay() that raises is swallowed.
ResumeMission(m) ==
    /\ mission[m].status = "paused"
    /\ mission' = [mission EXCEPT ![m].status = "in_progress"]
    /\ execs' = IF celery THEN Add(execs, ExecTask(m, "celery")) ELSE execs
    /\ UNCHANGED << drone, log, telemetry, starts, rflights, returns, chargers, pauses, celery, reply >>

\* mission_service.abort_mission
AbortMission(m) ==
    /\ mission[m].status \in {"in_progress", "paused"}
    /\ mission' = [mission EXCEPT ![m].status = "aborted"]
    /\ LET d == mission[m].assigned
       IN  drone' = IF d = NULL THEN drone
                    ELSE [drone EXCEPT ![d].status = "available", ![d].cmid = NULL]
    /\ UNCHANGED << log, telemetry, starts, execs, rflights, returns, chargers, pauses, celery, reply >>

\* ------------------------------------------------------ replacement flight
\* simulate_replacement_flight, lines 974-1009: the travel path from the
\* drone's base to the handoff location.
ReplacementPath(f) ==
    LET base == drone[f.d].base
        start == IF base # NULL THEN BasePos[base] ELSE 0
    IN  generate_travel_path(start, f.target, MissionAltitude, "fly")

\* Lines 1014-1032: the checks of an iteration, then the position is written.
ReplacementCheck(f) ==
    /\ BagIn(f, rflights)
    /\ f.pc = "check"
    /\ LET msn == mission[f.m]
       IN  IF msn.pending = NULL \/ msn.status \notin {"in_progress", "paused"}
           THEN /\ drone' = [drone EXCEPT ![f.d].status = "available"]
                /\ rflights' = Remove(rflights, f)
           ELSE IF drone[f.d].status # "dispatching"
           THEN /\ drone' = drone
                /\ rflights' = Remove(rflights, f)
           ELSE /\ drone' = [drone EXCEPT ![f.d].location = ReplacementPath(f)[f.i].pos]
                /\ rflights' = Add(Remove(rflights, f), [f EXCEPT !.pc = "arrive"])
    /\ UNCHANGED << mission, log, telemetry, starts, execs, returns, chargers, pauses, celery, reply >>

\* Lines 1036-1045 and 1089-1092: within the radius the handoff is completed;
\* otherwise the flight sleeps, and completes the handoff when the waypoints
\* are used up.
ReplacementArrive(f) ==
    /\ BagIn(f, rflights)
    /\ f.pc = "arrive"
    /\ LET wps == ReplacementPath(f)
           dist_to_target == haversine_distance(wps[f.i].pos, f.target)
           rest == [World EXCEPT !.rflights = Remove(@, f)]
       IN  IF dist_to_target <= RENDEZVOUS_RADIUS \/ f.i = Len(wps)
           THEN SetWorld(complete_handoff(rest, f.m, f.d, celery))
           ELSE SetWorld([rest EXCEPT !.rflights =
                            Add(@, [f EXCEPT !.pc = "check", !.i = f.i + 1])])
    /\ UNCHANGED << starts, pauses, celery, reply >>

\* Lines 1047-1049 and 1089-1092: a repository error inside the loop leaves
\* the loop, and the handoff is completed.
ReplacementError(f) ==
    /\ BagIn(f, rflights)
    /\ f.pc = "check"
    /\ SetWorld(complete_handoff([World EXCEPT !.rflights = Remove(@, f)],
                                 f.m, f.d, celery))
    /\ UNCHANGED << starts, pauses, celery, reply >>

\* ------------------------------------------------------------ return flight
\* simulate_return_flight, lines 846-886: the iterations of the flight.
TravelTime(f) ==
    LET base_pos == IF f.base # NULL THEN BasePos[f.base] ELSE 0
        distance == haversine_distance(f.from, base_pos)
        travel_time == IF distance > 0 THEN distance \div RETURN_SPEED
                       ELSE MIN_RETURN_TIME
    IN  Max(Min(travel_time, MAX_RETURN_TIME), MIN_RETURN_TIME)

\* Lines 889-908: one position update, unless the status has changed.
ReturnStep(f) ==
    /\ BagIn(f, returns)
    /\ f.tick < TravelTime(f)
    /\ LET base_pos == IF f.base # NULL THEN BasePos[f.base] ELSE 0
       IN  IF drone[f.d].status # "returning"
           THEN /\ drone' = drone
                /\ returns' = Remove(returns, f)
           ELSE /\ drone' = [drone EXCEPT ![f.d].location =
                        f.from + ((f.tick + 1) * (base_pos - f.from)) \div TravelTime(f)]
                /\ returns' = Add(Remove(returns, f), [f EXCEPT !.tick = f.tick + 1])
    /\ UNCHANGED << mission, log, telemetry, starts, execs, rflights, chargers, pauses, celery, reply >>

\* Lines 914-947: arrival; the drone is put on charge, the return is logged
\* under the mission id "return_flight" and the charging task is queued (a
\* delay() that raises is reported and nothing else is done).
ReturnArrive(f) ==
    /\ BagIn(f, returns)
    /\ f.tick = TravelTime(f)
    /\ LET base_pos == IF f.base # NULL THEN BasePos[f.base] ELSE 0
       IN  /\ chargers' = IF celery THEN Add(chargers, ChargeTask(f.d, "celery"))
                          ELSE chargers
           /\ drone' = [drone EXCEPT ![f.d].location = base_pos,
                                     ![f.d].status = "charging"]
           /\ log' = Add(log, LogEntry("return_flight", "return_to_base", f.d, NULL))
           /\ returns' = Remove(returns, f)
    /\ UNCHANGED << mission, telemetry, starts, execs, rflights, pauses, celery, reply >>

\* ----------------------------------------------------------------- charging
ChargeRate(kind) == IF kind = "celery" THEN CHARGE_RATE ELSE SYNC_CHARGE_RATE
ChargeLimit(kind) == IF kind = "celery" THEN MAX_CHARGE_TIME ELSE SYNC_MAX_ITERATIONS

\* A charging loop that ends at a full battery without writing the drone.
ChargeStepNoRelease(c) ==
    /\ BagIn(c, chargers)
    /\ IF c.tick = ChargeLimit(c.kind)
       THEN /\ drone' = [drone EXCEPT ![c.d].status = "available",
                                      ![c.d].battery = Pct(100)]
            /\ chargers' = Remove(chargers, c)
       ELSE IF drone[c.d].battery >= Pct(100) \/ drone[c.d].status # "charging"
       THEN /\ drone' = drone
            /\ chargers' = Remove(chargers, c)
       ELSE /\ drone' = [drone EXCEPT ![c.d].battery =
                            Min(Pct(100), @ + ChargeRate(c.kind))]
            /\ chargers' = Add(Remove(chargers, c), [c EXCEPT !.tick = c.tick + 1])
    /\ UNCHANGED << mission, log, telemetry, starts, execs, rflights, returns, pauses, celery, reply >>

\* charge_drone_task and charge_drone_sync: one iteration of the loop, and
\* after the last one the drone is made available with a full battery.
ChargeStep(c) ==
    /\ BagIn(c, chargers)
    /\ IF c.tick = ChargeLimit(c.kind) \/ drone[c.d].battery >= Pct(100)
       THEN /\ drone' = [drone EXCEPT ![c.d].status = "available",
                                      ![c.d].battery = Pct(100)]
            /\ chargers' = Remove(chargers, c)
       ELSE IF drone[c.d].status # "charging"
       THEN /\ drone' = drone
            /\ chargers' = Remove(chargers, c)
       ELSE /\ drone' = [drone EXCEPT ![c.d].battery =
                            Min(Pct(100), @ + ChargeRate(c.kind))]
            /\ chargers' = Add(Remove(chargers, c), [c EXCEPT !.tick = c.tick + 1])
    /\ UNCHANGED << mission, log, telemetry, starts, execs, rflights, returns, pauses, celery, reply >>

\* ----------------------------------------------------------------- fleet API
\* fleet_service.update_drone(drone_id, {"status": status}): an operator takes
\* a drone out of service.
UpdateDrone(d, status) ==
    /\ drone[d].status \notin {"in_mission", status}
    /\ drone' = [drone EXCEPT ![d].status = status]
    /\ UNCHANGED << mission, log, telemetry, starts, execs, rflights, returns,
                    chargers, pauses, celery, reply >>

\* ------------------------------------------------------------ specification
NewMission(status, assigned) ==
    [status |-> status, phase |-> "idle", progress |-> 0, wp |-> 0,
     assigned |-> assigned, pending |-> NULL, handoffLoc |-> NULL,
     originBase |-> NULL, path |-> PlannedBody, area |-> PlannedArea]

\* A mission created with a coverage polygon and without waypoints.
UnplannedMission(status, assigned, area) ==
    [NewMission(status, assigned) EXCEPT !.path = << >>, !.area = area]

\* A drone standing at its base.
NewDrone(status, battery, base) ==
    [status |-> status, battery |-> battery, cmid |-> NULL,
     location |-> BasePos[base], last_location |-> NULL, base |-> base]

Fleet(battery1, status2, battery2, base2, status3, battery3) ==
    [d1 |-> NewDrone("available", battery1, "b1"),
     d2 |-> NewDrone(status2, battery2, base2),
     d3 |-> NewDrone(status3, battery3, "b2")]

\* The fleets of the handoff runs.  d1 flies the mission and reaches the
\* critical level on its first tick; the replacement is at the same base, or
\* there is none, or the one at the same base is below the minimum (with or
\* without a charged drone at the other base), or there are two at the other
\* base.
InitFleets ==
    { Fleet(Pct(25), "available", Pct(100), "b1", "maintenance", Pct(100)),
      Fleet(Pct(25), "maintenance", Pct(100), "b1", "maintenance", Pct(100)),
      Fleet(Pct(25), "available", MINIMUM_BATTERY_FOR_MISSION - 1, "b1",
            "maintenance", Pct(100)),
      Fleet(Pct(25), "available", MINIMUM_BATTERY_FOR_MISSION - 1, "b1",
            "available", Pct(100)),
      Fleet(Pct(25), "available", Pct(100), "b2", "available", Pct(100)) }

InitTasks ==
    /\ log = EmptyBag
    /\ telemetry = EmptyBag
    /\ starts = [m \in Missions |-> NULL]
    /\ execs = EmptyBag
    /\ rflights = EmptyBag
    /\ returns = EmptyBag
    /\ chargers = EmptyBag
    /\ pauses = 0
    /\ celery \in BOOLEAN
    /\ reply = [m \in Missions |-> NULL]

\* Handoff runs: one mission to fly with d1 (m2 was completed earlier).
Init ==
    /\ mission = [m1 |-> NewMission("draft", "d1"), m2 |-> NewMission("completed", NULL)]
    /\ drone \in InitFleets
    /\ InitTasks

Next ==
    \/ \E m \in Missions : StartSelect(m)
    \/ \E m \in Missions : StartCommit(m)
    \/ \E m \in Missions : AbortMission(m)
    \/ \E e \in BagToSet(execs) : ExecStop(e)
    \/ \E e \in BagToSet(execs) : ExecTickSync(e)
    \/ \E e \in BagToSet(execs) : ExecTickCelery(e)
    \/ \E e \in BagToSet(execs) : ExecComplete(e)
    \/ \E f \in BagToSet(rflights) : ReplacementCheck(f)
    \/ \E f \in BagToSet(rflights) : ReplacementArrive(f)
    \/ \E f \in BagToSet(rflights) : ReplacementError(f)
    \/ \E f \in BagToSet(returns) : ReturnStep(f)
    \/ \E f \in BagToSet(returns) : ReturnArrive(f)
    \/ \E c \in BagToSet(chargers) : ChargeStep(c)

Spec == Init /\ [][Next]_vars

\* Dispatch runs: the two drones that can replace d1 are at the other base,
\* one at the minimum level and one below it; the charging tasks stay queued.
InitDispatch ==
    /\ mission = [m1 |-> NewMission("draft", "d1"), m2 |-> NewMission("completed", NULL)]
    /\ drone = Fleet(Pct(25), "available", MINIMUM_BATTERY_FOR_MISSION - 1, "b2",
                     "available", MINIMUM_BATTERY_FOR_MISSION)
    /\ InitTasks

NextDispatch ==
    \/ \E m \in Missions : StartSelect(m)
    \/ \E m \in Missions : StartCommit(m)
    \/ \E m \in Missions : AbortMission(m)
    \/ \E e \in BagToSet(execs) : ExecStop(e)
    \/ \E e \in BagToSet(execs) : ExecTickSync(e)
    \/ \E e \in BagToSet(execs) : ExecTickCelery(e)
    \/ \E e \in BagToSet(execs) : ExecComplete(e)
    \/ \E f \in BagToSet(rflights) : ReplacementCheck(f)
    \/ \E f \in BagToSet(rflights) : ReplacementArrive(f)
    \/ \E f \in BagToSet(rflights) : ReplacementError(f)
    \/ \E f \in BagToSet(returns) : ReturnStep(f)
    \/ \E f \in BagToSet(returns) : ReturnArrive(f)

SpecDispatch == InitDispatch /\ [][NextDispatch]_vars

\* Pause runs: one mission flown by a drone that needs no replacement, with
\* PauseMission, ResumeMission and AbortMission calls.
InitPause ==
    /\ mission = [m1 |-> NewMission("draft", "d1"), m2 |-> NewMission("completed", NULL)]
    /\ drone = Fleet(Pct(100), "maintenance", Pct(100), "b1", "maintenance", Pct(100))
    /\ InitTasks

NextPause ==
    \/ \E m \in Missions : StartSelect(m)
    \/ \E m \in Missions : StartCommit(m)
    \/ \E m \in Missions : StartRejected(m)
    \/ \E m \in Missions : PauseMission(m)
    \/ \E m \in Missions : ResumeMission(m)
    \/ \E m \in Missions : AbortMission(m)
    \/ \E e \in BagToSet(execs) : ExecStop(e)
    \/ \E e \in BagToSet(execs) : ExecTickSync(e)
    \/ \E e \in BagToSet(execs) : ExecTickCelery(e)
    \/ \E e \in BagToSet(execs) : ExecComplete(e)
    \/ \E c \in BagToSet(chargers) : ChargeStep(c)

SpecPause == InitPause /\ [][NextPause]_vars

\* Start runs: two missions started concurrently, each with d1 assigned or
\* with no drone assigned.
InitStart ==
    /\ \E a, b \in {NULL, "d1"} :
          mission = [m1 |-> NewMission("draft", a), m2 |-> NewMission("draft", b)]
    /\ \E s2 \in {"available", "maintenance"} :
          drone = Fleet(Pct(100), s2, Pct(100), "b1", "maintenance", Pct(100))
    /\ InitTasks

NextStart ==
    \/ \E m \in Missions : StartSelect(m)
    \/ \E m \in Missions : StartCommit(m)
    \/ \E e \in BagToSet(execs) : ExecTickSync(e)
    \/ \E e \in BagToSet(execs) : ExecTickCelery(e)
    \/ \E e \in BagToSet(execs) : ExecComplete(e)
    \/ \E c \in BagToSet(chargers) : ChargeStep(c)

SpecStart == InitStart /\ [][NextStart]_vars

\* Handoff runs in which a pass of an executor can raise.
NextError ==
    \/ Next
    \/ \E e \in BagToSet(execs) : ExecError(e)

SpecError == Init /\ [][NextError]_vars

\* Charging runs: no mission is active; d1 is on charge at any of the levels
\* below with one or two charging workers, d2 is on its way back to base b1
\* from the other base, and an operator can take either out of service.
ChargeLevels == {0, 1, Pct(50), Pct(95) - 1, Pct(95), Pct(100) - 1, Pct(100)}

ServiceStatuses == {"maintenance", "offline"}

InitCharge ==
    /\ mission = [m \in Missions |-> NewMission("completed", NULL)]
    /\ \E b1 \in ChargeLevels :
          drone = [d1 |-> [NewDrone("charging", b1, "b1") EXCEPT !.location = BasePos["b1"]],
                   d2 |-> [NewDrone("returning", Pct(20), "b1") EXCEPT
                                !.location = BasePos["b2"]],
                   d3 |-> NewDrone("maintenance", Pct(100), "b2")]
    /\ log = EmptyBag
    /\ telemetry = EmptyBag
    /\ starts = [m \in Missions |-> NULL]
    /\ execs = EmptyBag
    /\ rflights = EmptyBag
    /\ returns = SetToBag({ReturnTask("d2", "b1", BasePos["b2"])})
    /\ \E k1, k2 \in {"celery", "sync", NULL} :
          /\ k1 # NULL
          /\ chargers = IF k2 = NULL THEN SetToBag({ChargeTask("d1", k1)})
                        ELSE Add(SetToBag({ChargeTask("d1", k1)}), ChargeTask("d1", k2))
    /\ pauses = 0
    /\ celery \in BOOLEAN
    /\ reply = [m \in Missions |-> NULL]

NextCharge ==
    \/ \E c \in BagToSet(chargers) : ChargeStep(c)
    \/ \E f \in BagToSet(returns) : ReturnStep(f)
    \/ \E f \in BagToSet(returns) : ReturnArrive(f)
    \/ \E d \in {"d1", "d2"}, s \in ServiceStatuses : UpdateDrone(d, s)

SpecCharge == InitCharge /\ [][NextCharge]_vars


\* Survey runs: d1 reaches the critical level just before the survey line,
\* and its replacement comes from the other base while d1 flies the line.
InitSurvey ==
    /\ mission = [m1 |-> NewMission("draft", "d1"), m2 |-> NewMission("completed", NULL)]
    /\ drone = Fleet(Pct(35), "available", Pct(100), "b2", "maintenance", Pct(100))
    /\ InitTasks

SpecSurvey == InitSurvey /\ [][Next]_vars

\* Runs in which the telemetry repository fails for the first calls of a
\* pass.
NextTelemetry ==
    \/ Next
    \/ \E e \in BagToSet(execs) : \E n \in 1..MaxFailures : ExecTickSyncFaulty(e, n)
    \/ \E e \in BagToSet(execs) : \E n \in 1..MaxFailures : ExecTickCeleryFaulty(e, n)

SpecTelemetry == InitSurvey /\ [][NextTelemetry]_vars

\* Fair runs without calls of the user after the start and without faults:
\* d1 flies the mission and d2 is charged at the same base.  Every task is a
\* thread or a Celery task of its own that keeps being scheduled, hence weak
\* fairness of each kind of step.
InitLive ==
    /\ mission = [m1 |-> NewMission("draft", "d1"), m2 |-> NewMission("completed", NULL)]
    /\ drone = Fleet(Pct(25), "available", Pct(100), "b1", "maintenance", Pct(100))
    /\ InitTasks

NextLive ==
    \/ \E m \in Missions : StartSelect(m)
    \/ \E m \in Missions : StartCommit(m)
    \/ \E e \in BagToSet(execs) : ExecTickSync(e)
    \/ \E e \in BagToSet(execs) : ExecTickCelery(e)
    \/ \E e \in BagToSet(execs) : ExecComplete(e)
    \/ \E f \in BagToSet(rflights) : ReplacementCheck(f)
    \/ \E f \in BagToSet(rflights) : ReplacementArrive(f)
    \/ \E f \in BagToSet(returns) : ReturnStep(f)
    \/ \E f \in BagToSet(returns) : ReturnArrive(f)
    \/ \E c \in BagToSet(chargers) : ChargeStep(c)

SpecLive ==
    /\ InitLive
    /\ [][NextLive]_vars
    /\ WF_vars(\E m \in Missions : StartCommit(m))
    /\ WF_vars(\E e \in BagToSet(execs) : ExecTickSync(e))
    /\ WF_vars(\E e \in BagToSet(execs) : ExecTickCelery(e))
    /\ WF_vars(\E e \in BagToSet(execs) : ExecComplete(e))
    /\ WF_vars(\E f \in BagToSet(rflights) : ReplacementCheck(f))
    /\ WF_vars(\E f \in BagToSet(rflights) : ReplacementArrive(f))
    /\ WF_vars(\E f \in BagToSet(returns) : ReturnStep(f))
    /\ WF_vars(\E f \in BagToSet(returns) : ReturnArrive(f))
    /\ WF_vars(\E c \in BagToSet(chargers) : ChargeStep(c))

\* Assignment runs: a mission without a drone is started with any fleet of
\* available and grounded drones at two battery levels, d2 at either base.
AssignLevels == {Pct(50), Pct(100)}

InitAssign ==
    /\ mission = [m1 |-> NewMission("draft", NULL), m2 |-> NewMission("completed", NULL)]
    /\ \E s1, s2, s3 \in {"available", "maintenance"} :
       \E l1, l2, l3 \in AssignLevels :
       \E b2 \in Bases :
          drone = [d1 |-> NewDrone(s1, l1, "b1"),
                   d2 |-> NewDrone(s2, l2, b2),
                   d3 |-> NewDrone(s3, l3, "b2")]
    /\ InitTasks

NextAssign ==
    \/ \E m \in Missions : StartSelect(m)
    \/ \E m \in Missions : StartNoDrone(m)
    \/ \E m \in Missions : StartCommit(m)

SpecAssign == InitAssign /\ [][NextAssign]_vars

\* Longitude runs: m1 is created with two waypoints, or with a coverage
\* polygon and a pattern, at the longitudes below (one of them as a map that
\* wraps around gives it), for a drone with or without a base.
LngInputs == {-28200, -17990, 7700, 18000}

InitLongitude ==
    /\ \E a, b \in LngInputs :
       \E pattern \in {"given", "waypoint", "perimeter", "spiral"} :
          mission = [m1 |-> [pattern |-> pattern] @@
                            [NewMission("draft", "d1") EXCEPT
                                !.path = IF pattern = "given"
                                         THEN << Waypoint(a, MissionAltitude, "fly"),
                                                 Waypoint(b, MissionAltitude, "photo") >>
                                         ELSE << >>,
                                !.area = << a, b, b, a, a >>],
                     m2 |-> [pattern |-> "waypoint"] @@ NewMission("completed", NULL)]
    /\ \E base \in Bases \cup {NULL} :
          drone = [d \in Drones |->
                     [NewDrone(IF d = "d1" THEN "available" ELSE "maintenance",
                               Pct(100), "b1") EXCEPT !.base = IF d = "d1" THEN base ELSE @]]
    /\ InitTasks

NextLongitude == \E m \in Missions : StartLongitudes(m)

SpecLongitude == InitLongitude /\ [][NextLongitude]_vars

\* Long-hop runs: the mission was created with two waypoints that are
\* further apart than a drone flies in three ticks, and is paused and resumed
\* as in the pause runs.
LongBody ==
    << Waypoint(600, MissionAltitude, "fly"), Waypoint(5100, MissionAltitude, "photo") >>

InitRebuild ==
    /\ mission = [m1 |-> [NewMission("draft", "d1") EXCEPT !.path = LongBody],
                  m2 |-> NewMission("completed", NULL)]
    /\ drone = Fleet(Pct(100), "maintenance", Pct(100), "b1", "maintenance", Pct(100))
    /\ InitTasks

SpecRebuild == InitRebuild /\ [][NextPause]_vars

\* Planning runs: the mission to start has no flight path yet; its coverage
\* ring has no vertex, one vertex (open or closed), two vertices (open, or
\* closed with different or equal latitudes), or is a triangle or a
\* rectangle.
Areas ==
    { << >>,
      << <<10, 0>> >>,
      << <<10, 0>>, <<10, 0>> >>,
      << <<10, 0>>, <<20, 5>> >>,
      << <<10, 0>>, <<20, 5>>, <<10, 0>> >>,
      << <<10, 0>>, <<20, 0>>, <<10, 0>> >>,
      << <<10, 0>>, <<20, 0>>, <<20, 20>>, <<10, 0>> >>,
      << <<10, 0>>, <<20, 0>>, <<20, 30>>, <<10, 30>>, <<10, 0>> >> }

InitPlan ==
    /\ \E a \in Areas :
          mission = [m1 |-> UnplannedMission("draft", "d1", a),
                     m2 |-> NewMission("completed", NULL)]
    /\ drone = Fleet(Pct(100), "maintenance", Pct(100), "b1", "maintenance", Pct(100))
    /\ InitTasks

NextPlan ==
    \/ \E m \in Missions : StartSelect(m)
    \/ \E m \in Missions : StartInvalid(m)
    \/ \E m \in Missions : StartCommit(m)
    \/ \E e \in BagToSet(execs) : ExecTickSync(e)
    \/ \E e \in BagToSet(execs) : ExecTickCelery(e)
    \/ \E e \in BagToSet(execs) : ExecComplete(e)
    \/ \E c \in BagToSet(chargers) : ChargeStep(c)

SpecPlan == InitPlan /\ [][NextPlan]_vars

\* ------------------------------------------------------------- properties
\* What a step has added to a collection.
Added(old, new) == {x \in BagToSet(new) : CopiesIn(x, new) > CopiesIn(x, old)}

\* The step is an executor pass of mission m whose tick reports a battery at
\* or below the critical level.
CriticalTick(m) ==
    \E p \in Added(telemetry, telemetry') :
        p.m = m /\ p.battery <= CRITICAL_BATTERY_LEVEL

\* The executor tasks of mission m, and those that have entered their loop.
ExecutorsOf(m) == {e \in BagToSet(execs) : e.m = m}
Running(m) == {e \in ExecutorsOf(m) : e.pc = "loop"}
Count(S) == BagCardinality([e \in S |-> CopiesIn(e, execs)])

\* C1: in every reachable state a mission in progress has an assigned drone,
\* and that drone is in flight with the mission as its current mission.
C1_InProgressOwnedInFlight ==
    \A m \in Missions :
        mission[m].status = "in_progress" =>
            /\ mission[m].assigned \in Drones
            /\ drone[mission[m].assigned].status = "in_flight"
            /\ drone[mission[m].assigned].cmid = m

\* C2: under interleaved start_mission calls on distinct missions, no drone
\* is the assigned drone of two missions that are both in progress.
C2_ExclusiveOwnership ==
    \A m, n \in Missions :
        (/\ m # n
         /\ mission[m].status = "in_progress"
         /\ mission[n].status = "in_progress"
         /\ mission[m].assigned # NULL)
            => mission[m].assigned # mission[n].assigned

\* C3: an executor pass whose tick reports a battery at or below 20 % ends
\* with a replacement dispatched (pending), with the handoff completed (the
\* assigned drone changed), or with the mission aborted and a mission_aborted
\* entry in the handoff log; it never ends with none of these.
C3_CriticalBatteryHandled ==
    [][\A m \in Missions :
          CriticalTick(m) =>
              \/ mission'[m].pending # NULL
              \/ mission'[m].assigned # mission[m].assigned
              \/ /\ mission'[m].status = "aborted"
                 /\ \E e \in BagToSet(log') : e.m = m /\ e.kind = "mission_aborted"
      ]_vars

\* C4: a replacement flight that invokes complete_handoff for a mission whose
\* handoff to its drone is already complete (the drone is the assigned drone
\* and nothing is pending) changes no mission, no drone, appends no handoff
\* log entry and starts no return flight.
C4_CompleteIdempotent ==
    [][\A f \in BagToSet(rflights) :
          (/\ mission[f.m].pending = NULL
           /\ mission[f.m].assigned = f.d
           /\ (ReplacementArrive(f) \/ ReplacementError(f)))
              => UNCHANGED << mission, drone, log, returns >>
      ]_vars

\* C5: when complete_handoff has logged a handoff of mission m, the incoming
\* drone has m as its current mission and the outgoing drone has not.
C5_SingleOwnerAfterComplete ==
    [][\A e \in Added(log, log') :
          e.kind = "handoff_complete" =>
              /\ drone'[e.incoming].cmid = e.m
              /\ e.outgoing # e.incoming => drone'[e.outgoing].cmid # e.m
      ]_vars

\* C6: at most one executor loop runs for a mission at any time.
C6_OneExecutor == \A m \in Missions : Count(Running(m)) <= 1

\* C7: an executor pass that reaches the critical-battery check while a
\* replacement is pending (and has not arrived) leaves the pending drone and
\* the handoff location as they are, changes no drone's status and starts no
\* replacement flight.
C7_TriggerWithPendingIsNoOp ==
    [][\A m \in Missions :
          (/\ CriticalTick(m)
           /\ mission[m].pending # NULL
           /\ mission'[m].assigned = mission[m].assigned
           /\ mission'[m].status # "completed")
              => /\ mission'[m].pending = mission[m].pending
                 /\ mission'[m].handoffLoc = mission[m].handoffLoc
                 /\ rflights' = rflights
                 /\ \A d \in Drones : drone'[d].status = drone[d].status
      ]_vars

\* C8: the handoff of a mission to its pending replacement is completed only
\* when the replacement is within 10 m of the handoff location.
C8_CompleteOnlyWithinRadius ==
    [][\A e \in Added(log, log') :
          (e.kind = "handoff_complete" /\ mission[e.m].pending = e.incoming)
              => haversine_distance(drone[e.incoming].location,
                                    mission[e.m].handoffLoc) <= RENDEZVOUS_RADIUS
      ]_vars

\* C9: in every reachable state the pending replacement of a mission is
\* dispatching, is not the assigned drone and does not have the mission as
\* its current mission.
C9_PendingIsDispatching ==
    \A m \in Missions :
        mission[m].pending # NULL =>
            /\ drone[mission[m].pending].status = "dispatching"
            /\ mission[m].pending # mission[m].assigned
            /\ drone[mission[m].pending].cmid # m

\* C10: once the status of a paused mission has returned to in progress the
\* mission is ticked again: every mission in progress has an executor task.
C10_ResumedMissionIsTicked ==
    \A m \in Missions :
        mission[m].status = "in_progress" => Count(ExecutorsOf(m)) >= 1

\* The step is the first pass of an executor task of mission m: the task
\* builds its simulator from the persisted mission and ticks it.
FirstPass(m) ==
    /\ \E e \in ExecutorsOf(m) : e.pc = "init" /\ CopiesIn(e, execs') < CopiesIn(e, execs)
    /\ \E p \in Added(telemetry, telemetry') : p.m = m

\* C11: pause_mission and resume_mission change neither the waypoint index
\* nor the progress of the mission, and the first pass of an executor (the
\* one that resume_mission starts included) ticks from the persisted values:
\* the point it records has the persisted index or the next one, and a
\* progress that is not below the persisted progress.
C11_PauseResumePreserves ==
    [][\A m \in Missions :
          /\ (\/ mission[m].status = "in_progress" /\ mission'[m].status = "paused"
              \/ mission[m].status = "paused" /\ mission'[m].status = "in_progress")
                => /\ mission'[m].wp = mission[m].wp
                   /\ mission'[m].progress = mission[m].progress
          /\ FirstPass(m) =>
                \A p \in Added(telemetry, telemetry') :
                    p.m = m =>
                        /\ p.waypoint_index \in {mission[m].wp, mission[m].wp + 1}
                        /\ p.progress >= mission[m].progress
      ]_vars

\* A resumed mission, paused after it had left the first waypoints behind,
\* whose previous executor has ended and whose new executor has ticked.
C11_Witness ==
    /\ pauses >= 1
    /\ celery
    /\ mission["m1"].status = "in_progress"
    /\ mission["m1"].wp >= 5
    /\ mission["m1"].progress > 0
    /\ Count(ExecutorsOf("m1")) = 1
    /\ \A e \in ExecutorsOf("m1") : e.pc = "loop"
    /\ \E e \in BagToSet(log) : e.kind = "start"

\* Mission m was aborted by abort_mission (abort_mission_no_replacement logs
\* its abort).
AbortedByCall(m) ==
    /\ mission[m].status = "aborted"
    /\ \A e \in BagToSet(log) : ~(e.m = m /\ e.kind = "mission_aborted")

\* C12: once abort_mission has aborted a mission, no executor pass ticks it,
\* its assigned drone does not change (the replacement in the air never
\* becomes the assigned drone), and a replacement flight of the mission that
\* ends leaves its drone available.
C12_AbortCancelsReplacement ==
    [][\A m \in Missions :
          AbortedByCall(m) =>
              /\ \A p \in Added(telemetry, telemetry') : p.m # m
              /\ mission'[m].assigned = mission[m].assigned
              /\ \A f \in BagToSet(rflights) :
                    (f.m = m /\ CopiesIn(f, rflights') < CopiesIn(f, rflights)
                        /\ \A g \in BagToSet(rflights') : g.d # f.d)
                        => drone'[f.d].status = "available"
      ]_vars

\* No available drone other than the assigned drone of m has the minimum
\* battery level of a replacement.
NoReplacement(m) ==
    \A d \in Available(drone) \ {mission[m].assigned} :
        drone[d].battery < MINIMUM_BATTERY_FOR_MISSION

\* C13: an executor pass whose tick reports a battery at or below 20 % while
\* no other available drone has 30 % ends with the mission aborted, a
\* mission_aborted entry in the handoff log, and the outgoing drone without
\* current mission on its way back (returning, or charging already).
C13_NoReplacementAborts ==
    [][\A m \in Missions :
          (CriticalTick(m) /\ mission[m].pending = NULL /\ NoReplacement(m)) =>
              /\ mission'[m].status = "aborted"
              /\ \E e \in BagToSet(log') : e.m = m /\ e.kind = "mission_aborted"
              /\ drone'[mission[m].assigned].cmid = NULL
              /\ drone'[mission[m].assigned].status \in {"returning", "charging"}
      ]_vars

\* C14: when an executor task ends through its except clause (the mission
\* becomes failed), the assigned drone of the mission is available and has no
\* current mission.
C14_FailureReleasesDrone ==
    [][\A m \in Missions :
          (mission[m].status # "failed" /\ mission'[m].status = "failed"
              /\ mission'[m].assigned # NULL) =>
                  /\ drone'[mission'[m].assigned].status = "available"
                  /\ drone'[mission'[m].assigned].cmid = NULL
      ]_vars

\* C15: a start_mission call on a mission that is neither draft nor
\* scheduled is answered with MissionError and changes no mission, no drone,
\* no collection and no task table: no executor is started.
C15_StartRejectedChangesNothing ==
    [][\A m \in Missions :
          (/\ mission[m].status \notin {"draft", "scheduled"}
           /\ starts[m] = NULL
           /\ (reply'[m] # reply[m] \/ starts'[m] # starts[m])) =>
              /\ reply'[m] = "MissionError"
              /\ UNCHANGED << mission, drone, log, telemetry, starts, execs,
                              rflights, returns, chargers >>
      ]_vars

\* A start_mission call was refused for the mission in progress, which still
\* has its drone in flight and its one executor.
C15_Witness ==
    /\ reply["m1"] = "MissionError"
    /\ mission["m1"].status = "in_progress"
    /\ drone[mission["m1"].assigned].status = "in_flight"
    /\ Count(ExecutorsOf("m1")) = 1

ChargerEnds(c) == CopiesIn(c, chargers') < CopiesIn(c, chargers)
                  /\ \A c2 \in Added(chargers, chargers') : c2.d # c.d \/ c2.kind # c.kind

C18_ServiceStatusKept ==
    [][\A d \in Drones :
          drone[d].status \in ServiceStatuses => drone'[d].status \in ServiceStatuses
      ]_vars

\* C19: in every reachable state the battery level of every drone is between
\* 0 and 100 %.
C19_BatteryInRange ==
    \A d \in Drones : drone[d].battery >= 0 /\ drone[d].battery <= Pct(100)

\* Two workers charge the same drone.
TwoChargers ==
    \E d \in Drones :
        BagCardinality([c \in {x \in BagToSet(chargers) : x.d = d} |->
                            CopiesIn(c, chargers)]) >= 2

\* After a completed handoff two workers charge the same drone, whose
\* battery is not full yet.
C19_Witness ==
    /\ TwoChargers
    /\ \E e \in BagToSet(log) : e.kind = "handoff_complete"
    /\ \E c \in BagToSet(chargers) : c.tick > 0 /\ drone[c.d].battery < Pct(100)

\* C20: the progress of a telemetry point recorded for a mission is not
\* below the progress of any point recorded for the mission before it.
C20_ProgressMonotonic ==
    [][\A p \in Added(telemetry, telemetry') :
          \A q \in BagToSet(telemetry) : q.m = p.m => q.progress <= p.progress
      ]_vars

\* C21: the waypoint index of a telemetry point recorded for a mission is
\* not below the index of any point recorded for the mission before it.
C21_WaypointIndexMonotonic ==
    [][\A p \in Added(telemetry, telemetry') :
          \A q \in BagToSet(telemetry) :
              q.m = p.m => q.waypoint_index <= p.waypoint_index
      ]_vars

\* The number of handoff log entries of kind k recorded for mission m.
KindCount(m, k) ==
    LET S == {e \in BagToSet(log) : e.m = m /\ e.kind = k}
    IN  BagCardinality([e \in S |-> CopiesIn(e, log)])

\* C22: a completed mission with exactly one completed handoff has exactly
\* one handoff log entry of each of the kinds start, replacement_dispatched,
\* handoff_complete and complete, and no entry of another kind.
C22_LogOfOneHandoff ==
    \A m \in Missions :
        (mission[m].status = "completed" /\ KindCount(m, "handoff_complete") = 1) =>
            /\ \A k \in {"start", "replacement_dispatched", "handoff_complete", "complete"} :
                    KindCount(m, k) = 1
            /\ \A e \in BagToSet(log) :
                    e.m = m => e.kind \in {"start", "replacement_dispatched",
                                           "handoff_complete", "complete"}

\* The index at which the return waypoints that start_mission appended
\* begin in the flight path of a started mission.
ReturnSuffixStart(msn) ==
    Len(msn.path)
    - Len(generate_travel_path(PlannedBody[Len(PlannedBody)].pos,
                               BasePos[msn.originBase], MissionAltitude, "fly"))

\* C23: while a started mission that was never paused flies its return
\* waypoints its phase is returning, and once it is completed its phase is
\* completed.
C23_PhaseFollowsPath ==
    \A m \in Missions :
        (/\ pauses = 0
         /\ mission[m].originBase # NULL
         /\ mission[m].status \in {"in_progress", "completed"}) =>
            /\ (/\ mission[m].status = "in_progress"
                /\ mission[m].wp >= ReturnSuffixStart(mission[m])
                /\ mission[m].wp < Len(mission[m].path))
                    => mission[m].phase = "returning"
            /\ mission[m].status = "completed" => mission[m].phase = "completed"


\* C24: complete_mission invoked on a mission whose status is already
\* completed changes no mission field and no drone field and starts no
\* further charging worker.
C24_CompleteMissionIdempotent ==
    [][\A e \in BagToSet(execs) :
          (mission[e.m].status = "completed" /\ ExecComplete(e))
              => UNCHANGED << mission, drone, chargers >>
      ]_vars


\* The available drones other than the assigned drone of m that have the
\* minimum battery level, and those of them stationed at the base the
\* mission started from.
Candidates(m) ==
    {d \in Available(drone) \ {mission[m].assigned} :
        drone[d].battery >= MINIMUM_BATTERY_FOR_MISSION}
CandidatesAtOrigin(m) ==
    LET origin == IF mission[m].originBase # NULL THEN mission[m].originBase
                  ELSE drone[mission[m].assigned].base
    IN  {d \in Candidates(m) : drone[d].base = origin}

\* C25: the drone that a battery handoff dispatches is the candidate of the
\* origin base with the highest battery if that base has a candidate, and a
\* candidate elsewhere otherwise; the handoff aborts the mission only when
\* there is no candidate at all.
C25_FirstCandidateOrAbort ==
    [][\A m \in Missions : \A x \in Added(log, log') :
          (x.m = m /\ mission[m].pending = NULL) =>
              /\ x.kind = "replacement_dispatched" =>
                    IF CandidatesAtOrigin(m) # {}
                    THEN x.incoming \in TopBattery(drone, CandidatesAtOrigin(m))
                    ELSE x.incoming \in Candidates(m)
              /\ x.kind = "mission_aborted" => Candidates(m) = {}
      ]_vars


\* C26: a drone that a battery handoff dispatches was available and had at
\* least 30 % when the handoff selected it; in particular a drone below 30 %
\* is never dispatched.
C26_DispatchedWasFit ==
    [][\A x \in Added(log, log') :
          x.kind = "replacement_dispatched" =>
              /\ drone[x.incoming].status = "available"
              /\ drone[x.incoming].battery >= MINIMUM_BATTERY_FOR_MISSION
      ]_vars

\* A drone with exactly 30 % has been dispatched while one with 29.9 % was
\* available.
C26_Witness ==
    \E x \in BagToSet(log) : \E d \in Available(drone) :
        /\ x.kind = "replacement_dispatched"
        /\ drone[x.incoming].status = "dispatching"
        /\ drone[x.incoming].battery = MINIMUM_BATTERY_FOR_MISSION
        /\ drone[d].battery = MINIMUM_BATTERY_FOR_MISSION - 1


\* The distinct vertices of the coverage ring of a mission.
Vertices(msn) == {msn.area[i] : i \in 1..Len(msn.area)}

\* C27: while a mission without flight path has a coverage polygon of fewer
\* than 3 vertices, no step gives it waypoints, no step makes it in_progress
\* or puts a drone in flight, and a start_mission call that ends on it ends
\* with a ValidationError.
C27_DegeneratePolygonNotStarted ==
    [][\A m \in Missions :
          (mission[m].path = << >> /\ mission[m].area # NULL
              /\ Cardinality(Vertices(mission[m])) < 3) =>
              /\ mission'[m].path = << >>
              /\ mission'[m].status # "in_progress"
              /\ \A d \in Drones :
                    drone'[d].status = "in_flight" => drone[d].status = "in_flight"
              /\ reply'[m] # reply[m] => reply'[m] = "ValidationError"
      ]_vars


\* What a pass of executor e does after its telemetry append: the mission is
\* not failed and, unless a rendezvous is pending, the result of the tick is
\* on the mission and on the drone, and a critical battery with a candidate
\* in the fleet is answered by a dispatch or an abort.
PassGoesOn(e) ==
    LET m == e.m
        a == mission[m].assigned
        result == tick(SimulatorOf(World, e), mission[m].path, TickInterval).result
    IN  /\ mission'[m].status # "failed"
        /\ mission[m].pending = NULL =>
              /\ mission'[m].wp = result.current_waypoint
              /\ mission'[m].progress = result.progress
              /\ drone'[a].battery = result.battery
              /\ (result.battery <= CRITICAL_BATTERY_LEVEL /\ Candidates(m) # {}) =>
                    \E x \in Added(log, log') :
                        x.kind \in {"replacement_dispatched", "mission_aborted"}

\* C29: a pass appends the telemetry point with at most 3 attempts; when all
\* of them fail with a transient error, the pass goes on all the same: it
\* persists the progress, updates the drone and checks the battery, and the
\* mission is not marked failed.
C29_TelemetryFailureSwallowed ==
    [][/\ \A n \in 0..MaxFailures : retry_on_db_error(n, MAX_RETRIES).attempts <= 3
       /\ \A e \in BagToSet(execs) :
             (\/ ExecTickSyncFaulty(e, MAX_RETRIES)
              \/ ExecTickCeleryFaulty(e, MAX_RETRIES)) => PassGoesOn(e)
      ]_vars

\* The same for the passes of run_mission_simulation_sync alone.
C29_SyncTelemetryFailureSwallowed ==
    [][\A e \in BagToSet(execs) : ExecTickSyncFaulty(e, MAX_RETRIES) => PassGoesOn(e)]_vars


\* C30: a return flight makes at most 30 position updates; the step in which
\* it arrives leaves the drone charging at the position of the base, appends
\* a return_to_base entry under the id of the mission to the handoff log and
\* starts a charging task for the drone.
C30_ReturnFlightArrives ==
    [][\A f \in BagToSet(returns) :
          /\ f.tick <= MAX_RETURN_TIME
          /\ ReturnArrive(f) =>
                /\ drone'[f.d].status = "charging"
                /\ drone'[f.d].location = (IF f.base # NULL THEN BasePos[f.base] ELSE 0)
                /\ \E x \in Added(log, log') :
                      x.kind = "return_to_base" /\ x.outgoing = f.d /\ x.m \in Missions
                /\ \E c \in Added(chargers, chargers') : c.d = f.d
      ]_vars

\* The drones that have flown mission m, and those that took it over from
\* another drone.
FlewIt(m) ==
    {x.incoming : x \in {y \in BagToSet(log) :
                            y.m = m /\ y.kind \in {"start", "handoff_complete"}}}
Replacements(m) ==
    {x.incoming : x \in {y \in BagToSet(log) :
                            y.m = m /\ y.kind = "handoff_complete"}}

\* No task is left to run and no start_mission call is under way.
Quiescent ==
    /\ execs = EmptyBag
    /\ rflights = EmptyBag
    /\ returns = EmptyBag
    /\ chargers = EmptyBag
    /\ \A m \in Missions : starts[m] = NULL

\* C28: under fair scheduling a started mission that nobody pauses or aborts
\* and that finds a replacement whenever its battery is critical is
\* eventually completed with progress 100 and assigned to a replacement that
\* took it over (if one did), and all the drones that flew it are eventually
\* available again.  A fair run goes on until no task is left, and nothing
\* changes afterwards, so that the state it ends in must show all of this.
C28_MissionCompletes ==
    \A m \in Missions :
        (Quiescent /\ FlewIt(m) # {}) =>
            /\ mission[m].status = "completed"
            /\ mission[m].progress = Progress100
            /\ Replacements(m) # {} => mission[m].assigned \in Replacements(m)
            /\ \A d \in FlewIt(m) : drone[d].status = "available"


\* The number of tasks of a table that satisfy a test.
TasksOf(table, Test(_)) ==
    BagCardinality([t \in {u \in BagToSet(table) : Test(u)} |-> CopiesIn(t, table)])

\* C31: at any time a mission has at most one replacement flight task, and a
\* drone has at most one return flight task and at most one charging task.
C31_OneSiblingTaskEach ==
    /\ \A m \in Missions : LET ForM(f) == f.m = m IN TasksOf(rflights, ForM) <= 1
    /\ \A d \in Drones :
          LET ForD(t) == t.d = d
          IN  /\ TasksOf(returns, ForD) <= 1
              /\ TasksOf(chargers, ForD) <= 1


\* The simulator of task e is one built from the persisted mission: the task
\* has not ticked yet, or its simulator is what DroneSimulator(mission) gives
\* (the battery apart, which a handoff sets afterwards).
Rebuilt(e) ==
    \/ e.pc = "init"
    \/ [e.sim EXCEPT !.battery = 0]
          = [NewSimulator(mission[e.m], drone) EXCEPT !.battery = 0]

\* C32: the first tick of a simulator rebuilt from the persisted mission
\* reports a position within speed * dt of the position last reported for
\* the drone, a progress between the persisted progress and one tick's worth
\* above it, and a waypoint index that is not below the persisted index.
C32_RebuiltSimulatorContinues ==
    [][\A e \in BagToSet(execs) :
          LET m == e.m
              a == mission[m].assigned
              result == tick(SimulatorOf(World, e), mission[m].path, TickInterval).result
              reach == MissionSpeed * TickInterval
              worth == IF survey_distance(mission[m].path) > 0
                       THEN (reach * Progress100) \div survey_distance(mission[m].path) + 1
                       ELSE Progress100
          IN  (/\ Rebuilt(e)
               /\ ExecTickSync(e) \/ ExecTickCelery(e)
               /\ a # NULL
               /\ \E p \in BagToSet(telemetry) : p.drone = a) =>
                  /\ Abs(result.position - drone[a].last_location) <= reach
                  /\ result.progress >= mission[m].progress
                  /\ result.progress <= mission[m].progress + worth
                  /\ result.current_waypoint >= mission[m].wp
      ]_vars


\* C33: the handoff location that perform_battery_handoff stores on the
\* mission is the position that the most recent tick of the executor
\* reported for the outgoing drone.
C33_HandoffAtReportedPosition ==
    [][\A m \in Missions :
          (/\ mission[m].pending = NULL
           /\ mission'[m].pending # NULL
           /\ mission[m].assigned # NULL
           /\ \E p \in BagToSet(telemetry') : p.m = m /\ p.drone = mission[m].assigned) =>
              mission'[m].handoffLoc = drone'[mission[m].assigned].last_location
      ]_vars


\* The available drones that are based at a base nearest to the centre of
\* mission m.
AtNearestBase(m) ==
    {d \in Drones :
        /\ drone[d].status = "available"
        /\ \A b \in Bases : Abs(BasePos[drone[d].base] - MissionCenter[m])
                             <= Abs(BasePos[b] - MissionCenter[m])}

C35_LongitudesInRange ==
    \A m \in Missions :
        reply[m] = "ok" =>
            \A i \in 1..Len(mission[m].path) :
                /\ mission[m].path[i].pos >= -HALF_TURN
                /\ mission[m].path[i].pos <= HALF_TURN


\* C36: a mission whose status is completed, aborted or failed keeps that
\* status in every later step.
C36_TerminalStatusFinal ==
    [][\A m \in Missions :
          mission[m].status \in {"completed", "aborted", "failed"} =>
              mission'[m].status = mission[m].status
      ]_vars


\* C37: in every reachable state a drone that is available has no current
\* mission and is not the assigned drone of a mission in progress.
C37_AvailableIsFree ==
    \A d \in Drones :
        drone[d].status = "available" =>
            /\ drone[d].cmid = NULL
            /\ \A m \in Missions :
                  mission[m].status = "in_progress" => mission[m].assigned # d


\* C38: once a mission is completed, aborted or failed, eventually no drone
\* is in flight with it as current mission or dispatching as its pending
\* replacement.  A fair run goes on until no task is left, and nothing
\* changes afterwards, so that the state it ends in must have no such drone.
C38_NoDroneLeftOnTerminalMission ==
    \A m \in Missions :
        (Quiescent /\ mission[m].status \in {"completed", "aborted", "failed"}) =>
            \A d \in Drones :
                /\ ~(drone[d].status = "in_flight" /\ drone[d].cmid = m)
                /\ ~(drone[d].status = "dispatching" /\ mission[m].pending = d)


\* C39: a pass of an executor does not raise the persisted battery level of
\* a drone that is in flight before and after the pass.
C39_InFlightBatteryNotRaised ==
    [][\A d \in Drones :
          (/\ Added(telemetry, telemetry') # {}
           /\ drone[d].status = "in_flight"
           /\ drone'[d].status = "in_flight") =>
              drone'[d].battery <= drone[d].battery
      ]_vars


\* C40: when the replacement flight cannot be spawned (no broker, so every
\* spawn fails), a pass that chose a replacement leaves no trace of the
\* dispatch: no drone is dispatching, no mission has a pending replacement,
\* no replacement_dispatched entry is added to the handoff log, and the
\* executor goes on with the outgoing drone.
C40_FailedDispatchRolledBack ==
    [][~celery =>
          \A m \in Missions :
              /\ mission'[m].pending = NULL
              /\ \A d \in Drones : drone'[d].status # "dispatching"
              /\ \A x \in Added(log, log') : ~(x.m = m /\ x.kind = "replacement_dispatched")
              /\ (CriticalTick(m) /\ mission'[m].status = "in_progress") =>
                    /\ mission'[m].assigned = mission[m].assigned
                    /\ ExecutorsOf(m) # {}
      ]_vars

====
